---- MODULE Spec2Model ----
(***************************************************************************)
(* Model of storage/sqlite_store.py: the SQLite store of Garmin            *)
(* activities (init_db, get_existing_ids, upsert_activities) and the       *)
(* helpers _is_missing and _first_valid it normalises records with.        *)
(*                                                                         *)
(* Python values are tagged records [k, n, s]: k is the Python type,       *)
(* n the number of an int/float, s the characters of a str.                *)
(***************************************************************************)
EXTENDS Integers, Sequences, FiniteSets, TLC

\* ------------------------------------------------------------------ bounds
MaxCalls == 2
MaxBatch == 2

\* ----------------------------------------------------------- Python values
VNone == [k |-> "none", n |-> 0, s |-> <<>>]
VNaN == [k |-> "nan", n |-> 0, s |-> <<>>]
VInt(x) == [k |-> "int", n |-> x, s |-> <<>>]
VFloat(x) == [k |-> "float", n |-> x, s |-> <<>>]
VStr(chars) == [k |-> "str", n |-> 0, s |-> chars]

\* str.strip(): drop leading and trailing whitespace
RECURSIVE LStrip(_)
LStrip(s) == IF s # <<>> /\ Head(s) = " " THEN LStrip(Tail(s)) ELSE s

RECURSIVE RStrip(_)
RStrip(s) == IF s # <<>> /\ s[Len(s)] = " " THEN RStrip(SubSeq(s, 1, Len(s) - 1)) ELSE s

Strip(s) == RStrip(LStrip(s))

Digits == <<"0", "1", "2", "3", "4", "5", "6", "7", "8", "9">>

IsDigit(c) == \E d \in 1..10 : Digits[d] = c

DigitVal(c) == (CHOOSE d \in 1..10 : Digits[d] = c) - 1

RECURSIVE DigitsVal(_)
DigitsVal(s) == IF s = <<>> THEN 0 ELSE 10 * DigitsVal(SubSeq(s, 1, Len(s) - 1)) + DigitVal(s[Len(s)])

\* a decimal literal as int() and float() accept it from a str
IsNumeral(s) == Strip(s) # <<>> /\ \A j \in 1..Len(Strip(s)) : IsDigit(Strip(s)[j])

RECURSIVE IntToStr(_)
IntToStr(x) == IF x < 10 THEN <<Digits[x + 1]>> ELSE IntToStr(x \div 10) \o <<Digits[(x % 10) + 1]>>

\* int(value): [ok, v]; ok = FALSE is ValueError / TypeError
py_int(v) ==
    CASE v.k = "int" -> [ok |-> TRUE, v |-> v.n]
      [] v.k = "float" -> [ok |-> TRUE, v |-> v.n]
      [] v.k = "str" -> IF IsNumeral(v.s) THEN [ok |-> TRUE, v |-> DigitsVal(Strip(v.s))]
                                          ELSE [ok |-> FALSE, v |-> 0]
      [] OTHER -> [ok |-> FALSE, v |-> 0]

\* float(value): [ok, v]; ok = FALSE is ValueError / TypeError
py_float(v) ==
    CASE v.k = "int" -> [ok |-> TRUE, v |-> VFloat(v.n)]
      [] v.k = "float" -> [ok |-> TRUE, v |-> v]
      [] v.k = "nan" -> [ok |-> TRUE, v |-> VNaN]
      [] v.k = "str" -> IF IsNumeral(v.s) THEN [ok |-> TRUE, v |-> VFloat(DigitsVal(Strip(v.s)))]
                        ELSE IF Strip(v.s) = <<"n", "a", "n">> THEN [ok |-> TRUE, v |-> VNaN]
                        ELSE [ok |-> FALSE, v |-> VNone]
      [] OTHER -> [ok |-> FALSE, v |-> VNone]

\* str(value)
py_str(v) ==
    CASE v.k = "str" -> v.s
      [] v.k = "int" -> IntToStr(v.n)
      [] v.k = "float" -> IntToStr(v.n) \o <<".", "0">>
      [] v.k = "nan" -> <<"n", "a", "n">>
      [] OTHER -> <<"N", "o", "n", "e">>

\* bool(value), as the operands of `or` are tested
Truthy(v) ==
    CASE v.k = "none" -> FALSE
      [] v.k = "nan" -> TRUE
      [] v.k = "str" -> v.s # <<>>
      [] OTHER -> v.n # 0

\* a or b
py_or(a, b) == IF Truthy(a) THEN a ELSE b

\* row.get(key, default)
Get(row, key, default) == IF key \in DOMAIN row THEN row[key] ELSE default

\* ------------------------------------------------------------- normaliser
is_missing_nan_kept(value) ==
    CASE value.k = "none" -> TRUE
      [] value.k = "str" -> Strip(value.s) = <<>>
      [] OTHER -> FALSE

_is_missing(value) ==
    CASE value.k = "none" -> TRUE
      [] value.k = "str" -> Strip(value.s) = <<>>
      [] value.k = "nan" -> TRUE
      [] OTHER -> FALSE

RECURSIVE first_valid_present_wins(_, _)
first_valid_present_wins(row, keys) ==
    IF keys = <<>> THEN VNone
    ELSE LET key == Head(keys)
         IN  IF key \notin DOMAIN row THEN first_valid_present_wins(row, Tail(keys))
             ELSE row[key]

RECURSIVE first_valid_last_wins(_, _)
first_valid_last_wins(row, keys) ==
    IF keys = <<>> THEN VNone
    ELSE LET key == keys[Len(keys)]
             rest == SubSeq(keys, 1, Len(keys) - 1)
         IN  IF key \notin DOMAIN row THEN first_valid_last_wins(row, rest)
             ELSE IF _is_missing(row[key]) THEN first_valid_last_wins(row, rest)
             ELSE row[key]

RECURSIVE _first_valid(_, _)
_first_valid(row, keys) ==
    IF keys = <<>> THEN VNone
    ELSE LET key == Head(keys)
         IN  IF key \notin DOMAIN row THEN _first_valid(row, Tail(keys))
             ELSE IF _is_missing(row[key]) THEN _first_valid(row, Tail(keys))
             ELSE row[key]

distance_keys == <<"distance", "totalDistance">>
duration_keys == <<"duration", "movingDuration", "elapsedDuration">>
avg_hr_keys == <<"averageHR", "avgHR", "averageHeartRate">>
location_keys == <<"locationName", "location">>

\* start = str(row.get("startTimeLocal") or row.get("startTimeGMT", "") or "")
StartOf(row) ==
    py_str(py_or(py_or(Get(row, "startTimeLocal", VNone), Get(row, "startTimeGMT", VStr(<<>>))), VStr(<<>>)))

\* type_key = str(row.get("activityType.typeKey") or row.get("sportTypeId") or "")
TypeKeyOf(row) ==
    py_str(py_or(py_or(Get(row, "activityType.typeKey", VNone), Get(row, "sportTypeId", VNone)), VStr(<<>>)))

\* the four values found by the alias lookups
Lookups(row) ==
    [distance_val |-> _first_valid(row, distance_keys),
     duration_val |-> _first_valid(row, duration_keys),
     avg_hr_val |-> _first_valid(row, avg_hr_keys),
     location_val |-> _first_valid(row, location_keys)]

\* the parameters of the activities_flat statement; ok = FALSE when a float()
\* of the parameter tuple raises ValueError
FlatParams(row) ==
    LET f == Lookups(row)
        d == IF f.distance_val # VNone THEN py_float(f.distance_val) ELSE [ok |-> TRUE, v |-> VFloat(0)]
        u == IF f.duration_val # VNone THEN py_float(f.duration_val) ELSE [ok |-> TRUE, v |-> VFloat(0)]
        h == IF f.avg_hr_val # VNone THEN py_float(f.avg_hr_val) ELSE [ok |-> TRUE, v |-> VNone]
        l == IF f.location_val # VNone THEN py_str(f.location_val) ELSE <<>>
    IN  [ok |-> d.ok /\ u.ok /\ h.ok,
         distance_m |-> d.v, duration_s |-> u.v, avg_hr |-> h.v, location |-> l]

\* what one pass of the loop body derives from a record: the first valid
\* values, the flat parameters, and the start time and type key of the raw row
Normalised(row) ==
    [found |-> Lookups(row), params |-> FlatParams(row),
     start_time |-> StartOf(row), type_key |-> TypeKeyOf(row)]

\* ------------------------------------------------------------------ inputs
sT1 == <<"T", "1">>
sT2 == <<"T", "2">>
sRun == <<"r", "u", "n">>
sAbc == <<"a", "b", "c">>

\* the record bodies submitted: a complete record, a resubmission whose values
\* moved to other aliases (as in the smoke test) and that lacks the other
\* fields, a record with a non-numeric distance, and a record with no field
BodyFirst ==
    ("startTimeLocal" :> VStr(sT1)) @@ ("activityType.typeKey" :> VStr(sRun)) @@
    ("distance" :> VInt(5)) @@ ("duration" :> VInt(3)) @@ ("averageHR" :> VInt(9)) @@
    ("locationName" :> VStr(<<"L">>))

BodyUpdate ==
    ("startTimeGMT" :> VStr(sT2)) @@ ("distance" :> VNaN) @@ ("totalDistance" :> VInt(7)) @@
    ("averageHR" :> VNone) @@ ("averageHeartRate" :> VStr(<<"8">>))

BodyBadDistance == ("distance" :> VStr(sAbc)) @@ ("duration" :> VInt(3))

BodyBare == [key \in {} |-> VNone]

WithId(body, idv) == ("activity_id" :> idv) @@ body

\* ids as the source delivers them: ints, one id that arrives as text, ids that
\* are missing, and one that is no number
MissingIdValues == {VNone, VNaN, VStr(<<" ">>)}

Rows ==
    {WithId(b, VInt(1)) : b \in {BodyFirst, BodyUpdate, BodyBadDistance, BodyBare}}
    \cup {WithId(BodyUpdate, VStr(<<" ", "2">>))}
    \cup {WithId(BodyBare, v) : v \in MissingIdValues}
    \cup {BodyFirst, WithId(BodyBare, VStr(sAbc))}

\* ------------------------------------------------------------------- state
VARIABLES
    schema,     \* the two tables exist in the database file
    journal,    \* journal mode of the database file: "delete" or "wal"
    raw,        \* committed activities_raw: activity_id -> row
    flat,       \* committed activities_flat: activity_id -> row
    clock,      \* time.time() of the latest call, in seconds since the first call; 0 before it
    pc,         \* position of the upsert_activities call in progress
    df,         \* the rows of its argument that df.iterrows() has yielded
    now, inserted, skipped, new_ids,
    txRaw, txFlat,   \* the tables as the open transaction sees them
    conOpen,    \* the connection of the call is open
    exc,        \* the exception in flight, "none" when there is none
    outcome,    \* how the last call ended: "none", "returned", "raised"
    result,     \* the tuple the call returns
    ncalls,     \* calls started
    preRaw,     \* ids of activities_raw when the call in progress started
    failedRow,  \* index of the row whose processing raised, 0 when none
    hist,       \* per submitted id: what the calls that returned did with it
    unread,     \* the rows the iterator had not yet yielded when the loop was left
    execs,      \* statements the call in progress has executed, per table
    rpc,        \* position of the get_existing_ids call of the reader process
    rcon,       \* the connection of that call is open
    got,        \* what its select returned: the outcome, the ids of the two tables in
                \* the snapshot it read, and where the writer was at that moment
    nRow, nOut, nDone,  \* normaliser applied to one record
    credentials, \* the environment holds a user name and a password
    remote,     \* the account holds the activities 1..remote
    page_size,  \* argument of get_all_activities
    fpc,        \* position of the fetch in progress
    args,       \* start, limit and retries of the get_activities_page call
    attempt,    \* loop variable of the retry loop that is running
    e,          \* the exception the except clause has caught
    start, all_items,
    page,       \* how get_activities_page ended: kind, the page returned, the exception raised
    tries,      \* the api.get_activities calls of the get_activities_page call, in order
    slept,      \* the time.sleep calls of the retry loop that is running, in tenths of a second
    pages,      \* the get_activities_page calls of the fetch that ended, in order
    logins,     \* api.login calls that succeeded
    nerr,       \* exceptions the remote API has raised
    fout        \* how get_all_activities ended

vars == <<schema, journal, raw, flat, clock, pc, df, now, inserted, skipped, new_ids,
          txRaw, txFlat, conOpen, exc, outcome, result, ncalls, preRaw, failedRow,
          hist, unread, execs, rpc, rcon, got, nRow, nOut, nDone,
          credentials, remote, page_size, fpc, args, attempt, e, start, all_items,
          page, tries, slept, pages, logins, nerr, fout>>

storeVars == <<schema, journal, raw, flat>>
callVars == <<pc, df, now, inserted, skipped, new_ids, txRaw, txFlat, conOpen,
              exc, outcome, result, ncalls, preRaw, failedRow, hist, unread, execs>>
readerVars == <<rpc, rcon, got>>
normVars == <<nRow, nOut, nDone>>
fetchVars == <<credentials, remote, page_size, fpc, args, attempt, e, start, all_items,
               page, tries, slept, pages, logins, nerr, fout>>

EmptyTable == [id \in {} |-> 0]

NoExecs == [raw |-> 0, flat |-> 0]

NoResult == <<0, 0, <<>>>>

NotRead == [st |-> "none", ids |-> {}, flat_ids |-> {}, during |-> "idle"]

StoreInit ==
    /\ schema = FALSE
    /\ journal = "delete"
    /\ raw = EmptyTable
    /\ flat = EmptyTable
    /\ clock = 0
    /\ pc = "idle"
    /\ df = <<>>
    /\ now = 0
    /\ inserted = 0
    /\ skipped = 0
    /\ new_ids = <<>>
    /\ txRaw = EmptyTable
    /\ txFlat = EmptyTable
    /\ conOpen = FALSE
    /\ exc = "none"
    /\ outcome = "none"
    /\ result = NoResult
    /\ ncalls = 0
    /\ preRaw = {}
    /\ failedRow = 0
    /\ hist = EmptyTable
    /\ unread = <<>>
    /\ execs = NoExecs
    /\ rpc = "idle"
    /\ rcon = FALSE
    /\ got = NotRead

NoExc == [from |-> "none", n |-> 0]

NoPage == [kind |-> "none", page |-> <<>>, exc |-> NoExc]

NoArgs == [start |-> 0, limit |-> 1, retries |-> 0]

\* no fetch is running
FetchOff ==
    /\ credentials = TRUE
    /\ remote = 0
    /\ page_size = 1
    /\ fpc = "off"
    /\ args = NoArgs
    /\ attempt = 0
    /\ e = NoExc
    /\ start = 0
    /\ all_items = <<>>
    /\ page = NoPage
    /\ tries = <<>>
    /\ slept = <<>>
    /\ pages = <<>>
    /\ logins = 0
    /\ nerr = 0
    /\ fout = NoPage

\* no record is given to the normaliser
NormOff ==
    /\ nRow = BodyBare
    /\ nOut = Normalised(BodyBare)
    /\ nDone = FALSE

Init ==
    /\ StoreInit
    /\ NormOff
    /\ FetchOff

\* ------------------------------------------------------------ SQL statements
\* insert into activities_raw ... on conflict(activity_id) do nothing
raw_insert_replacing(tbl, aid, r) == [x \in DOMAIN tbl \cup {aid} |-> IF x = aid THEN r ELSE tbl[x]]

RawInsert(tbl, aid, r) == IF aid \in DOMAIN tbl THEN tbl ELSE (aid :> r) @@ tbl

rowcount_always_one(tbl, aid) == 1

\* cur.rowcount of that statement
RowCount(tbl, aid) == IF aid \in DOMAIN tbl THEN 0 ELSE 1

\* if cur.rowcount == 0: skipped += 1; else: inserted += 1; new_ids.append(aid)
tally_lists_skipped(rowcount, ins, skp, ids, aid) ==
    IF rowcount = 0
    THEN [inserted |-> ins, skipped |-> skp + 1, new_ids |-> Append(ids, aid)]
    ELSE [inserted |-> ins + 1, skipped |-> skp, new_ids |-> Append(ids, aid)]

tally_forgets_skipped(rowcount, ins, skp, ids, aid) ==
    IF rowcount = 0
    THEN [inserted |-> ins, skipped |-> skp, new_ids |-> ids]
    ELSE [inserted |-> ins + 1, skipped |-> skp, new_ids |-> Append(ids, aid)]

Tally(rowcount, ins, skp, ids, aid) ==
    IF rowcount = 0
    THEN [inserted |-> ins, skipped |-> skp + 1, new_ids |-> ids]
    ELSE [inserted |-> ins + 1, skipped |-> skp, new_ids |-> Append(ids, aid)]

\* insert into activities_flat ... on conflict(activity_id) do update set <all columns>
flat_upsert_ignoring(tbl, aid, r) == IF aid \in DOMAIN tbl THEN tbl ELSE (aid :> r) @@ tbl

flat_upsert_keeping(tbl, aid, r) ==
    [x \in DOMAIN tbl \cup {aid} |->
        IF x # aid THEN tbl[x]
        ELSE IF aid \notin DOMAIN tbl THEN r
        ELSE [r EXCEPT !.distance_m = IF @ = VFloat(0) THEN tbl[aid].distance_m ELSE @,
                       !.duration_s = IF @ = VFloat(0) THEN tbl[aid].duration_s ELSE @,
                       !.avg_hr = IF @ = VNone THEN tbl[aid].avg_hr ELSE @,
                       !.location = IF @ = <<>> THEN tbl[aid].location ELSE @]]

FlatUpsert(tbl, aid, r) == [x \in DOMAIN tbl \cup {aid} |-> IF x = aid THEN r ELSE tbl[x]]

sNull == <<"n", "u", "l", "l">>
sNaN == <<"N", "a", "N">>
Quote == "'"

\* the JSON token json.dumps writes for a value: null, NaN, the numeral of a
\* number, the quoted characters of a str
json_dumps(v) ==
    CASE v.k = "none" -> sNull
      [] v.k = "nan" -> sNaN
      [] v.k = "str" -> <<Quote>> \o v.s \o <<Quote>>
      [] OTHER -> py_str(v)

\* the value json.loads reads from a token
json_loads(tok) ==
    CASE tok = sNull -> VNone
      [] tok = sNaN -> VNaN
      [] Head(tok) = Quote -> VStr(SubSeq(tok, 2, Len(tok) - 1))
      [] OTHER -> VInt(DigitsVal(tok))

\* a payload that writes every value through str(), as `default=str` does for
\* the values json cannot serialise
payload_all_str(row) == [key \in DOMAIN row |-> json_dumps(VStr(py_str(row[key])))]

\* json.dumps(row.to_dict(), ensure_ascii=False, default=str): the JSON object
\* text, which names every key of the record with the token of its value
Payload(row) == [key \in DOMAIN row |-> json_dumps(row[key])]

\* the record json.loads reads back from a stored payload
FromPayload(p) == [key \in DOMAIN p |-> json_loads(p[key])]

raw_row_stamped_later(row, t) ==
    [start_time |-> StartOf(row), type_key |-> TypeKeyOf(row),
     payload_json |-> Payload(row), inserted_at |-> t + 1]

RawRow(row, t) ==
    [start_time |-> StartOf(row), type_key |-> TypeKeyOf(row),
     payload_json |-> Payload(row), inserted_at |-> t]

FlatRow(row, t) ==
    LET p == FlatParams(row)
    IN  [start_time |-> StartOf(row), type_key |-> TypeKeyOf(row),
         distance_m |-> p.distance_m, duration_s |-> p.duration_s,
         avg_hr |-> p.avg_hr, location |-> p.location, inserted_at |-> t]

\* "activity_id" not in row or _is_missing(row["activity_id"])
NoId(row) == "activity_id" \notin DOMAIN row \/ _is_missing(row["activity_id"])

\* aid = int(row["activity_id"])
Aid(row) == py_int(row["activity_id"])

\* ----------------------------------------------------------------- actions
closed_after_success(raised) == raised

\* try: ... finally: con.close(): the connection is open afterwards? never,
\* whether the block raised or not
OpenAfterFinally(raised) == FALSE

journal_mode_kept(mode) == mode

\* PRAGMA journal_mode=WAL
JournalMode(mode) == "wal"

create_table_strict(exists, tbl) == [ok |-> ~exists, tbl |-> tbl]

create_table_fresh(exists, tbl) == [ok |-> TRUE, tbl |-> EmptyTable]

\* create table if not exists ...: [ok, tbl]; ok = FALSE is OperationalError
CreateTable(exists, tbl) == [ok |-> TRUE, tbl |-> IF exists THEN tbl ELSE EmptyTable]

\* init_db(), up to `finally`: connect and execute the statements of DDL
InitDb ==
    /\ pc = "idle"
    /\ conOpen' = TRUE
    /\ journal' = JournalMode(journal)
    /\ LET r == CreateTable(schema, raw)
           f == CreateTable(schema, flat)
       IN  IF r.ok /\ f.ok
           THEN /\ schema' = TRUE
                /\ raw' = r.tbl
                /\ flat' = f.tbl
                /\ exc' = "none"
           ELSE /\ exc' = "OperationalError"
                /\ UNCHANGED <<schema, raw, flat>>
    /\ outcome' = "none"
    /\ pc' = "init"
    /\ UNCHANGED <<clock, df, now, inserted, skipped, new_ids, txRaw, txFlat, result,
                   ncalls, preRaw, failedRow, hist, unread, execs, readerVars, normVars, fetchVars>>

\* finally: con.close(); init_db returns or its exception reaches the caller
InitDb_Close ==
    /\ pc = "init"
    /\ conOpen' = OpenAfterFinally(exc # "none")
    /\ outcome' = IF exc = "none" THEN "returned" ELSE "raised"
    /\ pc' = "idle"
    /\ UNCHANGED <<storeVars, clock, df, now, inserted, skipped, new_ids, txRaw, txFlat,
                   exc, result, ncalls, preRaw, failedRow, hist, unread, execs,
                   readerVars, normVars, fetchVars>>

\* int(time.time()): the first call is made in second 1; a later call is made
\* in the second of the call before it or, the clock never running backwards,
\* in a later one
Seconds == IF clock = 0 THEN {1} ELSE {clock, clock + 1}

\* upsert_activities(df), up to the loop: sample the time, zero the counters,
\* open the connection and enter `with con`
Upsert_Begin ==
    /\ pc = "idle"
    /\ ncalls < MaxCalls
    /\ \E t \in Seconds : now' = t /\ clock' = t
    /\ df' = <<>>
    /\ inserted' = 0
    /\ skipped' = 0
    /\ new_ids' = <<>>
    /\ conOpen' = TRUE
    /\ txRaw' = raw
    /\ txFlat' = flat
    /\ exc' = "none"
    /\ outcome' = "none"
    /\ failedRow' = 0
    /\ preRaw' = DOMAIN raw
    /\ ncalls' = ncalls + 1
    /\ execs' = NoExecs
    /\ result' = NoResult
    /\ pc' = "loop"
    /\ UNCHANGED <<storeVars, hist, unread, readerVars, normVars, fetchVars>>

\* what the iterator may still hold when the loop is left early
Unread == IF Len(df') < MaxBatch THEN {<<>>} \cup {<<row>> : row \in Rows} ELSE {<<>>}

\* the exception leaves the loop body; the rest of the batch stays unread
Raise(kind) ==
    /\ exc' = kind
    /\ failedRow' = Len(df')
    /\ unread' \in Unread
    /\ pc' = "except"

\* the body of `for _, row in df.iterrows()` on the row the iterator yields
LoopBody(row) ==
    /\ pc = "loop"
    /\ Len(df) < MaxBatch
    /\ df' = Append(df, row)
    /\ IF NoId(row)
       THEN \* continue
            UNCHANGED <<pc, inserted, skipped, new_ids, txRaw, txFlat, exc, failedRow,
                        unread, execs>>
       ELSE IF ~Aid(row).ok
       THEN \* int() raises ValueError
            /\ Raise("ValueError")
            /\ UNCHANGED <<inserted, skipped, new_ids, txRaw, txFlat, execs>>
       ELSE IF ~schema
       THEN \* no such table: activities_raw
            /\ Raise("OperationalError")
            /\ execs' = [execs EXCEPT !.raw = @ + 1]
            /\ UNCHANGED <<inserted, skipped, new_ids, txRaw, txFlat>>
       ELSE LET aid == Aid(row).v IN
            /\ txRaw' = RawInsert(txRaw, aid, RawRow(row, now))
            /\ LET c == Tally(RowCount(txRaw, aid), inserted, skipped, new_ids, aid) IN
                   /\ inserted' = c.inserted
                   /\ skipped' = c.skipped
                   /\ new_ids' = c.new_ids
            /\ IF FlatParams(row).ok
               THEN /\ txFlat' = FlatUpsert(txFlat, aid, FlatRow(row, now))
                    /\ execs' = [raw |-> execs.raw + 1, flat |-> execs.flat + 1]
                    /\ UNCHANGED <<pc, exc, failedRow, unread>>
               ELSE \* float() raises ValueError while the parameters are built
                    /\ Raise("ValueError")
                    /\ execs' = [execs EXCEPT !.raw = @ + 1]
                    /\ UNCHANGED txFlat
    /\ UNCHANGED <<storeVars, clock, now, conOpen, outcome, result, ncalls, preRaw,
                   hist, readerVars, normVars, fetchVars>>

\* one iteration of the loop, on any record of the pool
Upsert_Row == \E row \in Rows : LoopBody(row)

\* ids of the records of a batch that carry a usable id
SubmittedIds(batch) == {Aid(batch[j]).v : j \in {x \in 1..Len(batch) : ~NoId(batch[x]) /\ Aid(batch[x]).ok}}

\* index of the last record of the batch submitted under the id
LastIndexOf(batch, id) ==
    CHOOSE j \in 1..Len(batch) :
        /\ ~NoId(batch[j]) /\ Aid(batch[j]).ok /\ Aid(batch[j]).v = id
        /\ \A x \in (j + 1)..Len(batch) : NoId(batch[x]) \/ ~Aid(batch[x]).ok \/ Aid(batch[x]).v # id

Range(seq) == {seq[j] : j \in 1..Len(seq)}

Occurrences(seq, x) == Cardinality({j \in 1..Len(seq) : seq[j] = x})

\* what the calls that returned did with each id: the call that first submitted
\* it, the calls that listed it in new_ids, the record and time last submitted
Record(h, batch, ids, t, callNo) ==
    [id \in DOMAIN h \cup SubmittedIds(batch) |->
        LET old == IF id \in DOMAIN h THEN h[id]
                   ELSE [first |-> callNo, newIn |-> <<>>, rec |-> BodyBare, at |-> 0]
        IN  IF id \in SubmittedIds(batch)
            THEN [first |-> old.first,
                  newIn |-> old.newIn \o [x \in 1..Occurrences(ids, id) |-> callNo],
                  rec |-> batch[LastIndexOf(batch, id)],
                  at |-> t]
            ELSE old]

\* the iterator is exhausted: `with con` commits, the tuple is built
Upsert_Commit ==
    /\ pc = "loop"
    /\ raw' = txRaw
    /\ flat' = txFlat
    /\ result' = <<inserted, skipped, new_ids>>
    /\ hist' = Record(hist, df, new_ids, now, ncalls)
    /\ pc' = "finally"
    /\ UNCHANGED <<schema, journal, clock, df, now, inserted, skipped, new_ids, txRaw,
                   txFlat, conOpen, exc, outcome, ncalls, preRaw, failedRow, unread,
                   execs, readerVars, normVars, fetchVars>>

commit_on_error ==
    /\ pc = "except"
    /\ raw' = txRaw
    /\ flat' = txFlat
    /\ unread' = <<>>
    /\ pc' = "finally"
    /\ UNCHANGED <<schema, journal, clock, df, now, inserted, skipped, new_ids, txRaw,
                   txFlat, conOpen, exc, outcome, result, ncalls, preRaw, failedRow,
                   hist, execs, readerVars, normVars, fetchVars>>

rollback_and_go_on ==
    /\ pc = "except"
    /\ txRaw' = raw
    /\ txFlat' = flat
    /\ exc' = "none"
    /\ failedRow' = 0
    /\ pc' = "loop"
    /\ UNCHANGED <<storeVars, clock, df, now, inserted, skipped, new_ids, conOpen,
                   outcome, result, ncalls, preRaw, hist, unread, execs,
                   readerVars, normVars, fetchVars>>

\* an exception leaves `with con`: the transaction is rolled back and the
\* iterator is dropped with what it still held
Upsert_Rollback ==
    /\ pc = "except"
    /\ txRaw' = raw
    /\ txFlat' = flat
    /\ unread' = <<>>
    /\ pc' = "finally"
    /\ UNCHANGED <<storeVars, clock, df, now, inserted, skipped, new_ids, conOpen, exc,
                   outcome, result, ncalls, preRaw, failedRow, hist, execs,
                   readerVars, normVars, fetchVars>>

\* finally: con.close(); then the call returns its tuple or the exception
\* reaches the caller, and the locals of the call are gone
Upsert_Close ==
    /\ pc = "finally"
    /\ conOpen' = OpenAfterFinally(exc # "none")
    /\ outcome' = IF exc = "none" THEN "returned" ELSE "raised"
    /\ pc' = "idle"
    /\ df' = <<>>
    /\ now' = 0
    /\ inserted' = 0
    /\ skipped' = 0
    /\ new_ids' = <<>>
    /\ txRaw' = EmptyTable
    /\ txFlat' = EmptyTable
    /\ preRaw' = {}
    /\ failedRow' = 0
    /\ unread' = <<>>
    /\ execs' = NoExecs
    /\ UNCHANGED <<storeVars, clock, exc, result, ncalls, hist, readerVars, normVars, fetchVars>>

ids_of_first_row(tbl) == IF DOMAIN tbl = {} THEN {} ELSE {CHOOSE id \in DOMAIN tbl : \A x \in DOMAIN tbl : id <= x}

\* {int(r[0]) for r in cur.fetchall()} of the select on a table
IdsOf(tbl) == DOMAIN tbl

\* the select finds the database locked: in rollback-journal mode a writer
\* that has written pages excludes readers, in WAL mode it never does
ReaderBlocked(mode, writing) == mode # "wal" /\ writing

\* get_existing_ids(), up to `finally`: connect and select the ids; the
\* connection reads the committed tables, whatever a writer has pending
GetExistingIds ==
    /\ rpc = "idle"
    /\ rcon' = TRUE
    /\ got' = IF ReaderBlocked(journal, pc \in {"loop", "except"} /\ (txRaw # raw \/ txFlat # flat))
              THEN [st |-> "locked", ids |-> {}, flat_ids |-> {}, during |-> pc]
              ELSE IF ~schema
              THEN [st |-> "no such table", ids |-> {}, flat_ids |-> {}, during |-> pc]
              ELSE [st |-> "ok", ids |-> IdsOf(raw), flat_ids |-> IdsOf(flat), during |-> pc]
    /\ rpc' = "finally"
    /\ UNCHANGED <<storeVars, clock, callVars, normVars, fetchVars>>

\* finally: con.close(); the set is returned or the exception reaches the caller
GetExistingIds_Close ==
    /\ rpc = "finally"
    /\ rcon' = OpenAfterFinally(got.st # "ok")
    /\ got' = NotRead
    /\ rpc' = "idle"
    /\ UNCHANGED <<storeVars, clock, callVars, normVars, fetchVars>>

Next ==
    \/ InitDb
    \/ InitDb_Close
    \/ Upsert_Begin
    \/ Upsert_Row
    \/ Upsert_Commit
    \/ Upsert_Rollback
    \/ Upsert_Close

Spec == Init /\ [][Next]_vars

\* ------------------------------------- the store with a reader process
\* the records the writer submits while a reader runs beside it: one id
\* submitted and resubmitted, one whose flat parameters raise after the raw
\* insert, a second id, and a record without an id
ReadRows ==
    {WithId(b, VInt(1)) : b \in {BodyFirst, BodyUpdate, BodyBadDistance}}
    \cup {WithId(BodyUpdate, VStr(<<" ", "2">>)), WithId(BodyBare, VNone)}

Upsert_RowBesideReader == \E row \in ReadRows : LoopBody(row)

ReadNext ==
    \/ InitDb
    \/ InitDb_Close
    \/ GetExistingIds
    \/ GetExistingIds_Close
    \/ Upsert_Begin
    \/ Upsert_RowBesideReader
    \/ Upsert_Commit
    \/ Upsert_Rollback
    \/ Upsert_Close

ReadSpec == Init /\ [][ReadNext]_vars

\* -------------------------------------------- the normaliser on one record
AliasGroups == {distance_keys, duration_keys, avg_hr_keys, location_keys}

FieldValues == {VNone, VNaN, VStr(<<>>), VStr(<<" ">>), VInt(5), VInt(7), VStr(<<"8">>), VStr(sAbc)}

\* the keys the raw row's start time and type key are read from
start_keys == <<"startTimeLocal", "startTimeGMT">>
type_keys == <<"activityType.typeKey", "sportTypeId">>

HeaderGroups == {start_keys, type_keys}

HeaderValues == {VNone, VNaN, VStr(<<>>), VStr(<<" ">>), VStr(sT1), VStr(sT2), VInt(0), VInt(7)}

\* records that carry any of the aliases of one canonical field, and records
\* that carry any of the keys of the start time or of the type key
NormRows ==
    UNION {UNION {[ks -> FieldValues] : ks \in SUBSET Range(g)} : g \in AliasGroups}
    \cup UNION {UNION {[ks -> HeaderValues] : ks \in SUBSET Range(g)} : g \in HeaderGroups}

NormInit ==
    /\ StoreInit
    /\ nRow \in NormRows
    /\ nOut = Normalised(BodyBare)
    /\ nDone = FALSE
    /\ FetchOff

\* the lookups and the coercions of upsert_activities applied to the record
Normalise ==
    /\ ~nDone
    /\ nOut' = Normalised(nRow)
    /\ nDone' = TRUE
    /\ UNCHANGED <<nRow, storeVars, clock, callVars, readerVars, fetchVars>>

NormNext == Normalise

NormSpec == NormInit /\ [][NormNext]_vars

\* ------------------------------------------ the fetch from Garmin Connect
\* bounds of the accounts and of the arguments tried
MaxItems == 3
MaxPageSize == 2
MaxRetries == 3

\* retries: int = 3
DefaultRetries == 3

\* base_sleep: float = 0.8, in tenths of a second
BaseSleep == 8

\* for attempt in range(3), of get_api
LoginAttempts == 3

\* if attempt == 2: raise, of get_api
LastLoginAttempt == 2

RECURSIVE Pow2(_)
Pow2(n) == IF n = 0 THEN 1 ELSE 2 * Pow2(n - 1)

\* base_sleep * (2 ** attempt)
Backoff(base, a) == base * Pow2(a)

last_attempt_is_retries(a, r) == a = r

\* attempt == retries - 1
LastAttempt(a, r) == a = r - 1

next_start_by_one(s, size) == s + 1

\* start += page_size
NextStart(s, size) == s + size

\* api.get_activities(start, limit) on an account that holds the activities 1..n
Serve(n, from, limit) ==
    LET left == IF n > from THEN n - from ELSE 0
    IN  [j \in 1..(IF left < limit THEN left ELSE limit) |-> from + j]

\* the exception the remote API raises on its next failure
NextExc(what) == [from |-> what, n |-> nerr + 1]

\* get_api up to the retry loop: get_credentials raises ValueError when the
\* environment lacks the user name or the password
GetApi_Credentials ==
    /\ fpc = "begin"
    /\ IF credentials
       THEN /\ fpc' = "login"
            /\ attempt' = 0
            /\ fout' = fout
       ELSE /\ fpc' = "done"
            /\ attempt' = attempt
            /\ fout' = [kind |-> "raised", page |-> <<>>, exc |-> [from |-> "get_credentials", n |-> 0]]
    /\ slept' = <<>>
    /\ UNCHANGED <<storeVars, clock, callVars, readerVars, normVars, credentials, remote,
                   page_size, args, e, start, all_items, page, tries, pages, logins, nerr>>

\* try: api.login(); return api, and the first lines of get_all_activities
\* after get_api returned
GetApi_Login ==
    /\ fpc = "login"
    /\ \E ok \in BOOLEAN :
          IF ok
          THEN /\ logins' = logins + 1
               /\ all_items' = <<>>
               /\ start' = 0
               /\ fpc' = "while"
               /\ UNCHANGED <<e, nerr>>
          ELSE /\ e' = NextExc("login")
               /\ nerr' = nerr + 1
               /\ fpc' = "login_except"
               /\ UNCHANGED <<logins, all_items, start>>
    /\ UNCHANGED <<storeVars, clock, callVars, readerVars, normVars, credentials, remote,
                   page_size, args, attempt, page, tries, slept, pages, fout>>

\* except Exception: time.sleep(2 ** attempt); if attempt == 2: raise
GetApi_Except ==
    /\ fpc = "login_except"
    /\ slept' = Append(slept, 10 * Pow2(attempt))
    /\ IF attempt = LastLoginAttempt
       THEN /\ fout' = [kind |-> "raised", page |-> <<>>, exc |-> e]
            /\ fpc' = "done"
            /\ attempt' = attempt
       ELSE /\ attempt' = attempt + 1
            /\ fpc' = IF attempt + 1 < LoginAttempts THEN "login" ELSE "while"
            /\ fout' = fout
    /\ UNCHANGED <<storeVars, clock, callVars, readerVars, normVars, credentials, remote,
                   page_size, args, e, start, all_items, page, tries, pages, logins, nerr>>

\* page = get_activities_page(api, start, page_size)
All_Request ==
    /\ fpc = "while"
    /\ args' = [start |-> start, limit |-> page_size, retries |-> DefaultRetries]
    /\ fpc' = "call"
    /\ UNCHANGED <<storeVars, clock, callVars, readerVars, normVars, credentials, remote,
                   page_size, attempt, e, start, all_items, page, tries, slept, pages,
                   logins, nerr, fout>>

\* get_activities_page is entered: for attempt in range(retries); with no
\* attempt to make the function ends without a return statement
Page_Call ==
    /\ fpc = "call"
    /\ attempt' = 0
    /\ tries' = <<>>
    /\ slept' = <<>>
    /\ IF args.retries > 0
       THEN fpc' = "try" /\ page' = NoPage
       ELSE fpc' = "ret" /\ page' = [kind |-> "None", page |-> <<>>, exc |-> NoExc]
    /\ UNCHANGED <<storeVars, clock, callVars, readerVars, normVars, credentials, remote,
                   page_size, args, e, start, all_items, pages, logins, nerr, fout>>

\* try: return api.get_activities(start, limit)
Page_Try ==
    /\ fpc = "try"
    /\ \E ok \in BOOLEAN :
          IF ok
          THEN /\ tries' = Append(tries, [start |-> args.start, limit |-> args.limit,
                                          ok |-> TRUE, exc |-> NoExc])
               /\ page' = [kind |-> "page", page |-> Serve(remote, args.start, args.limit),
                           exc |-> NoExc]
               /\ fpc' = "ret"
               /\ UNCHANGED <<e, nerr>>
          ELSE /\ tries' = Append(tries, [start |-> args.start, limit |-> args.limit,
                                          ok |-> FALSE, exc |-> NextExc("get_activities")])
               /\ e' = NextExc("get_activities")
               /\ nerr' = nerr + 1
               /\ fpc' = "except"
               /\ page' = page
    /\ UNCHANGED <<storeVars, clock, callVars, readerVars, normVars, credentials, remote,
                   page_size, args, attempt, start, all_items, slept, pages, logins, fout>>

\* except Exception: time.sleep(base_sleep * (2 ** attempt));
\* if attempt == retries - 1: raise; otherwise the loop goes on, and ends
\* without a return statement when range(retries) is used up
Page_Except ==
    /\ fpc = "except"
    /\ slept' = Append(slept, Backoff(BaseSleep, attempt))
    /\ IF LastAttempt(attempt, args.retries)
       THEN /\ page' = [kind |-> "raised", page |-> <<>>, exc |-> e]
            /\ fpc' = "ret"
            /\ attempt' = attempt
       ELSE IF attempt + 1 < args.retries
       THEN /\ attempt' = attempt + 1
            /\ fpc' = "try"
            /\ page' = page
       ELSE /\ page' = [kind |-> "None", page |-> <<>>, exc |-> NoExc]
            /\ fpc' = "ret"
            /\ attempt' = attempt
    /\ UNCHANGED <<storeVars, clock, callVars, readerVars, normVars, credentials, remote,
                   page_size, args, e, start, all_items, tries, pages, logins, nerr, fout>>

\* what the call of get_activities_page that ended leaves in the log
Logged == Append(pages, [start |-> args.start, limit |-> args.limit, kind |-> page.kind,
                         page |-> page.page])

\* the exception of get_activities_page leaves get_all_activities
All_Abort ==
    /\ fpc = "ret"
    /\ page.kind = "raised"
    /\ pages' = Logged
    /\ fout' = [kind |-> "raised", page |-> <<>>, exc |-> page.exc]
    /\ fpc' = "done"
    /\ UNCHANGED <<storeVars, clock, callVars, readerVars, normVars, credentials, remote,
                   page_size, args, attempt, e, start, all_items, page, tries, slept,
                   logins, nerr>>

\* if not page: break; return all_items
All_Break ==
    /\ fpc = "ret"
    /\ page.kind # "raised"
    /\ page.page = <<>>
    /\ pages' = Logged
    /\ fout' = [kind |-> "returned", page |-> all_items, exc |-> NoExc]
    /\ fpc' = "done"
    /\ UNCHANGED <<storeVars, clock, callVars, readerVars, normVars, credentials, remote,
                   page_size, args, attempt, e, start, all_items, page, tries, slept,
                   logins, nerr>>

\* all_items.extend(page); start += page_size; time.sleep(pause_between_pages)
All_Extend ==
    /\ fpc = "ret"
    /\ page.kind # "raised"
    /\ page.page # <<>>
    /\ pages' = Logged
    /\ all_items' = all_items \o page.page
    /\ start' = NextStart(start, page_size)
    /\ fpc' = "while"
    /\ UNCHANGED <<storeVars, clock, callVars, readerVars, normVars, credentials, remote,
                   page_size, args, attempt, e, page, tries, slept, logins, nerr, fout>>

\* one call of get_activities_page, with the arguments a caller may pass
PageInit ==
    /\ StoreInit
    /\ NormOff
    /\ credentials = TRUE
    /\ remote \in 0..MaxItems
    /\ page_size = 1
    /\ fpc = "call"
    /\ args \in [start : 0..MaxItems, limit : 1..MaxPageSize, retries : 0..MaxRetries]
    /\ attempt = 0
    /\ e = NoExc
    /\ start = 0
    /\ all_items = <<>>
    /\ page = NoPage
    /\ tries = <<>>
    /\ slept = <<>>
    /\ pages = <<>>
    /\ logins = 1
    /\ nerr = 0
    /\ fout = NoPage

PageNext ==
    \/ Page_Call
    \/ Page_Try
    \/ Page_Except

PageSpec == PageInit /\ [][PageNext]_vars

\* one call of get_all_activities
FetchInit ==
    /\ StoreInit
    /\ NormOff
    /\ credentials \in BOOLEAN
    /\ remote \in 0..MaxItems
    /\ page_size \in 1..MaxPageSize
    /\ fpc = "begin"
    /\ args = NoArgs
    /\ attempt = 0
    /\ e = NoExc
    /\ start = 0
    /\ all_items = <<>>
    /\ page = NoPage
    /\ tries = <<>>
    /\ slept = <<>>
    /\ pages = <<>>
    /\ logins = 0
    /\ nerr = 0
    /\ fout = NoPage

FetchNext ==
    \/ GetApi_Credentials
    \/ GetApi_Login
    \/ GetApi_Except
    \/ All_Request
    \/ Page_Call
    \/ Page_Try
    \/ Page_Except
    \/ All_Abort
    \/ All_Break
    \/ All_Extend

\* the fetch is one sequential program: a step that can be taken is taken
FetchSpec == FetchInit /\ [][FetchNext]_vars /\ WF_vars(FetchNext)

\* ------------------------------------------------------------------ claims
\* the claims' own reading of the record: an id is missing when it is null,
\* NaN or a string of nothing but whitespace
AllSpaces(str) == \A j \in 1..Len(str) : str[j] = " "

MissingValue(v) == v = VNone \/ v = VNaN \/ (v.k = "str" /\ AllSpaces(v.s))

Excluded(row) == "activity_id" \notin DOMAIN row \/ MissingValue(row["activity_id"])

\* the call has committed and is about to hand its tuple to the caller
Returned == pc = "finally" /\ exc = "none"

\* C1: raw insertion is at-most-once per activity_id: over the calls that
\* returned, an id is listed in new_ids by exactly one call, the first that
\* submitted it; a later call that submits it counts it as skipped.
C1_AtMostOnceRawInsert ==
    \A id \in DOMAIN hist :
        /\ hist[id].newIn = <<hist[id].first>>
        /\ (Returned /\ id \in SubmittedIds(df) /\ hist[id].first < ncalls)
              => (id \notin Range(result[3]) /\ result[2] >= 1)

C1_Witness ==
    /\ Returned
    /\ ncalls = 2
    /\ \E id \in SubmittedIds(df) :
          /\ id \in DOMAIN hist
          /\ hist[id].first = 1
          /\ result = <<0, 1, <<>>>>

\* C2: always-fresh projection: in every committed state the activities_flat
\* row of each stored id holds the values derived from the record most
\* recently submitted under that id and the timestamp of the call that
\* submitted it, also when that call skipped the id in activities_raw.
C2_AlwaysFreshProjection ==
    /\ DOMAIN flat = DOMAIN hist
    /\ \A id \in DOMAIN flat : flat[id] = FlatRow(hist[id].rec, hist[id].at)

C2_Witness ==
    \E id \in DOMAIN flat :
        /\ id \in DOMAIN raw
        /\ flat[id].inserted_at = 2
        /\ raw[id].inserted_at = 1
        /\ flat[id].distance_m = VFloat(7)
        /\ FlatRow(FromPayload(raw[id].payload_json), 1).distance_m = VFloat(5)

\* C3: the raw row is write-once: a step never changes or removes a committed
\* activities_raw row, and a call in progress sees every committed row with
\* the columns the inserting call wrote.
C3_RawWriteOnce ==
    [][\A id \in DOMAIN raw :
          /\ id \in DOMAIN raw' /\ raw'[id] = raw[id]
          /\ pc' \in {"loop", "except", "finally"}
                => (id \in DOMAIN txRaw' /\ txRaw'[id] = raw[id])]_vars

C3_Witness ==
    \E id \in DOMAIN raw :
        /\ Returned
        /\ id \in SubmittedIds(df)
        /\ hist[id].at > raw[id].inserted_at
        /\ Payload(hist[id].rec) # raw[id].payload_json
        /\ raw[id].start_time # StartOf(hist[id].rec)

\* the ids of the records of the batch that carry a usable id, in batch order
RECURSIVE UsableIds(_)
UsableIds(batch) ==
    IF batch = <<>> THEN <<>>
    ELSE IF Excluded(Head(batch)) \/ ~Aid(Head(batch)).ok THEN UsableIds(Tail(batch))
    ELSE <<Aid(Head(batch)).v>> \o UsableIds(Tail(batch))

\* the first occurrences, in order, of the ids that are not in the set
RECURSIVE NewOnes(_, _)
NewOnes(ids, seen) ==
    IF ids = <<>> THEN <<>>
    ELSE IF Head(ids) \in seen THEN NewOnes(Tail(ids), seen)
    ELSE <<Head(ids)>> \o NewOnes(Tail(ids), seen \cup {Head(ids)})

\* C4: a call that returns reports inserted + skipped = the number of records
\* with a usable id, len(new_ids) = inserted, and new_ids = the ids whose
\* activities_raw row this call created, in the order encountered.
C4_ReturnValue ==
    Returned =>
        /\ result[1] + result[2] = Len(UsableIds(df))
        /\ Len(result[3]) = result[1]
        /\ Range(result[3]) = DOMAIN raw \ preRaw
        /\ result[3] = NewOnes(UsableIds(df), preRaw)

C4_Witness ==
    /\ Returned
    /\ preRaw = {1}
    /\ result = <<1, 1, <<2>>>>
    /\ DOMAIN raw = {1, 2}

\* the call has rolled back and is about to hand its exception to the caller
Raised == pc = "finally" /\ exc # "none"

\* the record has a present, non-missing id that is an integer
UsableId(row) == ~Excluded(row) /\ Aid(row).ok

\* the step runs the loop body on the row the iterator yields
Handles == pc = "loop" /\ Len(df') = Len(df) + 1

Handled == df'[Len(df')]

\* C5: no whole-batch rollback: when the processing of record k raises, the
\* rows written for the records before k are in the store after the call
\* raised.
C5_EarlierRecordsStayCommitted ==
    Raised =>
        \A j \in 1..(failedRow - 1) :
            UsableId(df[j]) => (Aid(df[j]).v \in DOMAIN raw /\ Aid(df[j]).v \in DOMAIN flat)

\* C6: a record whose id is present and not missing but is no integer is
\* excluded silently: handling it raises nothing and the loop goes on to the
\* next record with the counters and the tables as they were.
C6_BadIdExcluded ==
    [][(Handles /\ ~Excluded(Handled) /\ ~Aid(Handled).ok)
          => (/\ pc' = "loop" /\ exc' = "none"
              /\ UNCHANGED <<inserted, skipped, new_ids, txRaw, txFlat>>)]_vars

\* C7: a record without the activity_id key, or with a missing id (null, blank
\* or NaN), is excluded: handling it raises nothing, leaves the counters,
\* new_ids and both tables as they were, and the loop goes on to the next
\* record.
C7_MissingIdExcluded ==
    [][(Handles /\ Excluded(Handled))
          => (/\ pc' = "loop" /\ exc' = "none"
              /\ UNCHANGED <<inserted, skipped, new_ids, txRaw, txFlat, raw, flat>>)]_vars

C7_Witness ==
    /\ Returned
    /\ Len(df) = 2
    /\ Excluded(df[1])
    /\ "activity_id" \in DOMAIN df[1]
    /\ result = <<1, 0, <<1>>>>
    /\ DOMAIN raw = {1}
    /\ DOMAIN flat = {1}

\* the value is text that is no number
NotANumber(v) == v.k = "str" /\ ~AllSpaces(v.s) /\ ~IsNumeral(v.s)

\* a value found for distance, duration or average heart rate cannot be
\* converted to a float
CoercionFails(row) ==
    \/ NotANumber(Lookups(row).distance_val)
    \/ NotANumber(Lookups(row).duration_val)
    \/ NotANumber(Lookups(row).avg_hr_val)

\* C8: a value of distance, duration or average heart rate that cannot be
\* converted to a float is treated as absent: on an initialised store the
\* record's rows are written with the default in that field, the record is
\* counted, and the loop goes on without raising.
C8_CoercionFailureRecovered ==
    [][(Handles /\ schema /\ UsableId(Handled) /\ CoercionFails(Handled))
          => (/\ pc' = "loop" /\ exc' = "none"
              /\ inserted' + skipped' = inserted + skipped + 1
              /\ Aid(Handled).v \in DOMAIN txRaw'
              /\ Aid(Handled).v \in DOMAIN txFlat'
              /\ NotANumber(Lookups(Handled).distance_val)
                    => txFlat'[Aid(Handled).v].distance_m = VFloat(0))]_vars

\* the positions of the aliases that hold a usable value in the record
UsableAt(row, keys) == {j \in 1..Len(keys) : keys[j] \in DOMAIN row /\ ~MissingValue(row[keys[j]])}

FirstOf(S) == CHOOSE j \in S : \A x \in S : j <= x

\* the value the lookup found for the alias list
Found(keys) ==
    CASE keys = distance_keys -> nOut.found.distance_val
      [] keys = duration_keys -> nOut.found.duration_val
      [] keys = avg_hr_keys -> nOut.found.avg_hr_val
      [] keys = location_keys -> nOut.found.location_val

\* the parameter stored for the alias list
Stored(keys) ==
    CASE keys = distance_keys -> nOut.params.distance_m
      [] keys = duration_keys -> nOut.params.duration_s
      [] keys = avg_hr_keys -> nOut.params.avg_hr
      [] keys = location_keys -> VStr(nOut.params.location)

\* the column value of a found value: a float, or the text of a location
ColumnOf(keys, v) ==
    CASE keys = location_keys -> VStr(py_str(v))
      [] v.k = "int" -> VFloat(v.n)
      [] OTHER -> VFloat(DigitsVal(Strip(v.s)))

\* C9: alias priority: the value found for a canonical field is that of the
\* first alias, in the fixed order, that holds a usable value, whatever the
\* later aliases hold, and the stored column is that value's conversion.
C9_AliasPriority ==
    nDone =>
        \A keys \in AliasGroups :
            LET U == UsableAt(nRow, keys) IN
            U # {} =>
                /\ Found(keys) = nRow[keys[FirstOf(U)]]
                /\ nOut.params.ok => Stored(keys) = ColumnOf(keys, nRow[keys[FirstOf(U)]])

C9_Witness ==
    /\ nDone
    /\ DOMAIN nRow = {"distance", "totalDistance"}
    /\ nRow["distance"] = VInt(5)
    /\ nRow["totalDistance"] = VInt(7)
    /\ nOut.params.distance_m = VFloat(5)

\* the record without the keys whose value is missing
WithoutMissing(row) == [key \in {x \in DOMAIN row : ~MissingValue(row[x])} |-> row[key]]

\* C10: missing-value coalescing: an alias whose value is missing (null, blank
\* or NaN) is skipped like an absent key, the lookup yields None exactly when
\* no alias is usable, and neither the value found nor the stored column is
\* ever a missing value when an alias is usable.
C10_MissingCoalescing ==
    nDone =>
        \A keys \in AliasGroups :
            /\ Found(keys) = _first_valid(WithoutMissing(nRow), keys)
            /\ Found(keys) = VNone <=> UsableAt(nRow, keys) = {}
            /\ UsableAt(nRow, keys) # {} => ~MissingValue(Found(keys)) /\ Stored(keys) # VNaN

C10_Witness ==
    /\ nDone
    /\ DOMAIN nRow = {"averageHR", "avgHR"}
    /\ nRow["averageHR"] = VNaN
    /\ nRow["avgHR"] = VInt(7)
    /\ nOut.params.avg_hr = VFloat(7)

\* the canonical fields of an activities_flat row
Canonical(r) ==
    [start_time |-> r.start_time, type_key |-> r.type_key, distance_m |-> r.distance_m,
     duration_s |-> r.duration_s, avg_hr |-> r.avg_hr, location |-> r.location]

\* the canonical fields the normaliser derives from a stored payload
Rebuilt(p) == Canonical(FlatRow(FromPayload(p), 0))

\* C11 as stated: in every committed state, for every id the canonical fields
\* of its activities_flat row equal the values the normaliser derives from the
\* payload stored in its activities_raw row.
C11_FlatRebuildableFromRaw ==
    \A id \in DOMAIN flat :
        id \in DOMAIN raw /\ Canonical(flat[id]) = Rebuilt(raw[id].payload_json)

\* C11 amended: every id with an activities_flat row has an activities_raw
\* row, and while the record most recently submitted under the id has the
\* content of the stored payload, the canonical fields of the flat row equal
\* the values derived from that payload; after a resubmission with other
\* content the flat row follows the resubmission, not the payload.
C11_RebuildableUntilResubmitted ==
    \A id \in DOMAIN flat :
        /\ id \in DOMAIN raw
        /\ id \in DOMAIN hist
        /\ Payload(hist[id].rec) = raw[id].payload_json
              => Canonical(flat[id]) = Rebuilt(raw[id].payload_json)
        /\ Canonical(flat[id]) = Canonical(FlatRow(hist[id].rec, 0))

C11_Witness ==
    \E id \in DOMAIN flat :
        /\ pc = "idle"
        /\ outcome = "returned"
        /\ Payload(hist[id].rec) = raw[id].payload_json
        /\ hist[id].at > raw[id].inserted_at
        /\ flat[id].distance_m = VFloat(5)
        /\ Rebuilt(raw[id].payload_json).distance_m = VFloat(5)

\* C12: schema creation is idempotent: init_db may run whenever no call is in
\* progress; it raises nothing and leaves the tables in place, and when the
\* tables exist already it leaves every row of activities_raw and
\* activities_flat as it was, up to and including its return.
C12_InitDbIdempotent ==
    [][/\ (pc = "idle" /\ pc' = "init")
            => (/\ exc' = "none" /\ schema'
                /\ schema => (raw' = raw /\ flat' = flat))
       /\ pc = "init"
            => (/\ schema' = schema /\ raw' = raw /\ flat' = flat
                /\ pc' = "idle" /\ outcome' = "returned")]_vars

C12_Witness ==
    /\ pc = "init"
    /\ exc = "none"
    /\ schema
    /\ ncalls >= 1
    /\ DOMAIN raw # {}
    /\ DOMAIN flat = DOMAIN raw

\* the batch of the call in progress: the rows yielded and the rows left unread
Batch == df \o unread

\* C13: upsert_activities never initialises the schema: on a store where
\* init_db has not run, a call whose batch holds a record with a valid id
\* raises a storage error, builds no tuple and leaves the store without the
\* tables; such a call never returns.
C13_NoAutoInit ==
    (~schema /\ \E j \in 1..Len(Batch) : UsableId(Batch[j]))
        => /\ pc # "finally" \/ exc # "none"
           /\ pc = "except"
                => (/\ exc = "OperationalError"
                    /\ result = NoResult
                    /\ raw = EmptyTable /\ flat = EmptyTable)

\* the ids listed in new_ids by the calls that returned
Reported == {id \in DOMAIN hist : hist[id].newIn # <<>>}

\* the step is the select of a get_existing_ids call, or its return
Selects == rpc = "idle" /\ rpc' = "finally"

ReaderReturns == rpc = "finally" /\ rpc' = "idle"

\* C14: on an initialised store get_existing_ids returns exactly the ids that
\* have an activities_raw row; with no call in progress that is the union of
\* the new_ids lists the calls that returned have reported (empty when none
\* has); and the call changes no row of either table.
C14_GetExistingIds ==
    [][/\ (Selects /\ schema)
            => (/\ got'.st = "ok"
                /\ got'.ids = DOMAIN raw
                /\ pc = "idle" => got'.ids = Reported
                /\ raw' = raw /\ flat' = flat)
       /\ ReaderReturns => (raw' = raw /\ flat' = flat)]_vars

C14_Witness ==
    /\ rpc = "finally"
    /\ pc = "idle"
    /\ outcome = "returned"
    /\ got = [st |-> "ok", ids |-> {1, 2}, flat_ids |-> {1, 2}, during |-> "idle"]
    /\ hist[1].newIn = <<1>>
    /\ hist[2].newIn = <<2>>

\* C15: connection handles are never leaked: the connection of
\* upsert_activities or init_db is open exactly while that call is in
\* progress and the connection of get_existing_ids exactly while that call
\* is, so each is closed when its call has returned or raised, on every exit
\* path, and none is open between operations.
C15_NoLeakedConnection ==
    /\ conOpen <=> pc # "idle"
    /\ rcon <=> rpc # "idle"

C15_Witness ==
    /\ pc = "idle"
    /\ outcome = "raised"
    /\ exc = "ValueError"
    /\ DOMAIN raw # {}
    /\ ~conOpen
    /\ rpc = "idle"
    /\ ~rcon

\* an upsert_activities call is in progress
Running == pc \in {"loop", "except", "finally"}

\* C16: a reader that selects at any point of a running upsert_activities
\* call never finds the database locked; on a store that has the tables its
\* select succeeds and shows committed state only: the ids of the committed
\* activities_raw rows, all of them written by calls that returned, and the
\* same ids in activities_flat, whatever the running call has written so far.
C16_ReaderSeesCommitted ==
    [][(Selects /\ Running)
          => (/\ got'.st # "locked"
              /\ schema
                   => (/\ got'.st = "ok"
                       /\ got'.ids = DOMAIN raw
                       /\ got'.ids \subseteq DOMAIN hist
                       /\ got'.flat_ids = got'.ids))]_vars

C16_Witness ==
    /\ rpc = "finally"
    /\ pc = "except"
    /\ got.during = "except"
    /\ 1 \in DOMAIN txRaw
    /\ 1 \notin DOMAIN txFlat
    /\ got.st = "ok"
    /\ got.ids = {2}
    /\ got.flat_ids = {2}

\* the rows of the batch so far whose id is usable: the rows that reach the
\* statements
Reaching(batch) == Cardinality({j \in 1..Len(batch) : UsableId(batch[j])})

\* the step ends an upsert_activities call
Ends == pc = "finally" /\ pc' = "idle"

\* C17: storage failures are propagated and not retried: once a statement
\* has failed, the call handles no further record and executes no further
\* statement, builds no tuple, commits nothing and ends by raising the
\* storage exception; and in any call each record that reaches the
\* statements has its raw insert and its flat upsert attempted at most once.
C17_StorageFailurePropagated ==
    [][/\ (Running /\ exc = "OperationalError")
            => (/\ pc' \in {"finally", "idle"}
                /\ exc' = exc
                /\ result' = NoResult
                /\ raw' = raw /\ flat' = flat
                /\ ~Ends => (df' = df /\ execs' = execs)
                /\ Ends => outcome' = "raised")
       /\ Handles
            => (/\ execs'.raw <= Reaching(df')
                /\ execs'.flat <= execs'.raw
                /\ exc' = "OperationalError" => (pc' = "except" /\ result' = NoResult))]_vars

C17_Witness ==
    /\ pc = "except"
    /\ exc = "OperationalError"
    /\ ncalls = 2
    /\ failedRow = 1
    /\ unread # <<>>
    /\ UsableId(unread[1])
    /\ execs = [raw |-> 1, flat |-> 0]
    /\ result = NoResult

\* the default of the column of an alias list
DefaultOf(keys) ==
    CASE keys = distance_keys -> VFloat(0)
      [] keys = duration_keys -> VFloat(0)
      [] keys = avg_hr_keys -> VNone
      [] keys = location_keys -> <<>>

\* the column of an alias list in an activities_flat row
ColumnIn(r, keys) ==
    CASE keys = distance_keys -> r.distance_m
      [] keys = duration_keys -> r.duration_s
      [] keys = avg_hr_keys -> r.avg_hr
      [] keys = location_keys -> r.location

\* C18: the flattened write replaces every column: in every committed state,
\* a canonical field for which the record most recently submitted under an id
\* has no usable alias holds its default in the id's activities_flat row
\* (distance_m 0.0, duration_s 0.0, avg_hr null, location empty), whatever
\* an earlier submission of the id stored there, and also for a new id.
C18_FlatReplacesEveryColumn ==
    \A id \in DOMAIN flat :
        \A keys \in AliasGroups :
            UsableAt(hist[id].rec, keys) = {} => ColumnIn(flat[id], keys) = DefaultOf(keys)

C18_Witness ==
    /\ pc = "idle"
    /\ 1 \in DOMAIN flat
    /\ Rebuilt(raw[1].payload_json).distance_m = VFloat(5)
    /\ Rebuilt(raw[1].payload_json).avg_hr = VFloat(9)
    /\ Rebuilt(raw[1].payload_json).location = <<"L">>
    /\ hist[1].rec = WithId(BodyBare, VInt(1))
    /\ flat[1].distance_m = VFloat(0)
    /\ flat[1].duration_s = VFloat(0)
    /\ flat[1].avg_hr = VNone
    /\ flat[1].location = <<>>
    /\ flat[1].inserted_at > raw[1].inserted_at

\* C19: no deletion: no step of init_db, get_existing_ids or
\* upsert_activities removes an id from the committed activities_raw or
\* activities_flat, and every get_existing_ids made once a call that returned
\* has reported an id in new_ids succeeds and returns that id.
C19_NoDeletion ==
    [][/\ DOMAIN raw \subseteq DOMAIN raw'
       /\ DOMAIN flat \subseteq DOMAIN flat'
       /\ (Selects /\ Reported # {}) => (got'.st = "ok" /\ Reported \subseteq got'.ids)]_vars

C19_Witness ==
    /\ rpc = "finally"
    /\ pc = "init"
    /\ got.during = "init"
    /\ got.st = "ok"
    /\ got.ids = {1}
    /\ hist[1].newIn = <<1>>
    /\ ncalls = 2
    /\ outcome = "none"
    /\ exc = "none"

\* C20: raw and flattened tables never disagree on their key set: in every
\* committed state, also after calls that failed in the middle of a batch,
\* an id has an activities_raw row exactly when it has an activities_flat row.
C20_SameKeySet == DOMAIN raw = DOMAIN flat

C20_Witness ==
    /\ pc = "finally"
    /\ exc = "ValueError"
    /\ failedRow = 2
    /\ execs = [raw |-> 2, flat |-> 1]
    /\ DOMAIN raw = {1}
    /\ DOMAIN flat = {1}
    /\ Aid(df[1]).v = 2


\* C21: the start time stored is the string form of the first of
\* startTimeLocal, startTimeGMT whose value is not missing (null, blank or NaN)
\* and the empty string when there is none; the type key likewise of
\* activityType.typeKey, sportTypeId
HeaderOf(keys) == IF keys = start_keys THEN nOut.start_time ELSE nOut.type_key

C21_StartAndTypeFromFirstUsable ==
    nDone =>
        \A keys \in HeaderGroups :
            LET U == UsableAt(nRow, keys) IN
            IF U = {} THEN HeaderOf(keys) = <<>>
            ELSE HeaderOf(keys) = py_str(nRow[keys[FirstOf(U)]])


\* the positions of the batch whose record carries the id
PositionsOf(batch, id) == {j \in 1..Len(batch) : UsableId(batch[j]) /\ Aid(batch[j]).v = id}

\* the ids that several records of the batch carry and that had no raw row
\* when the call began
RepeatedNewIds == {id \in SubmittedIds(df) \ preRaw : Cardinality(PositionsOf(df, id)) >= 2}

LeastOf(S) == CHOOSE j \in S : \A x \in S : j <= x

GreatestOf(S) == CHOOSE j \in S : \A x \in S : j >= x

\* C22: when several records of one batch carry the same id and the id had no
\* raw row before the call, the first occurrence is inserted and listed once
\* in new_ids, every later occurrence is counted as skipped, the raw row keeps
\* the payload of the first occurrence and the flat row ends with the values
\* of the last occurrence.
C22_DuplicatesInOneBatch ==
    (Returned /\ RepeatedNewIds # {}) =>
        /\ \A id \in RepeatedNewIds :
              /\ Occurrences(result[3], id) = 1
              /\ raw[id] = RawRow(df[LeastOf(PositionsOf(df, id))], now)
              /\ flat[id] = FlatRow(df[GreatestOf(PositionsOf(df, id))], now)
        /\ result[1] = Cardinality(SubmittedIds(df) \ preRaw)
        /\ result[2] = Len(UsableIds(df)) - result[1]

C22_Witness ==
    /\ Returned
    /\ 1 \in RepeatedNewIds
    /\ result = <<1, 1, <<1>>>>
    /\ FromPayload(raw[1].payload_json) = df[1]
    /\ df[1] # df[2]
    /\ flat[1].distance_m = VFloat(7)
    /\ FlatRow(df[1], now).distance_m = VFloat(5)


\* C23: one timestamp per call: every raw row a call inserts and every flat
\* row it writes carries the one time sampled when the call began, and in
\* every state, committed or inside a transaction, the flat row of an id is
\* stamped no earlier than its raw row.
C23_OneTimestampPerCall ==
    /\ Returned =>
          \A id \in SubmittedIds(df) :
              /\ flat[id].inserted_at = now
              /\ id \notin preRaw => raw[id].inserted_at = now
    /\ \A id \in DOMAIN flat \cap DOMAIN raw : flat[id].inserted_at >= raw[id].inserted_at
    /\ \A id \in DOMAIN txFlat \cap DOMAIN txRaw : txFlat[id].inserted_at >= txRaw[id].inserted_at

C23_Witness ==
    /\ Returned
    /\ ncalls = 2
    /\ preRaw = {1}
    /\ SubmittedIds(df) = {1, 2}
    /\ raw[1].inserted_at < now
    /\ raw[2].inserted_at = now
    /\ flat[1].inserted_at = now
    /\ flat[2].inserted_at = now


\* the attempts of the get_activities_page call that failed
Failed(log) == {j \in 1..Len(log) : ~log[j].ok}

\* C24: get_activities_page calls api.get_activities at most `retries` times,
\* always with its own start and limit, makes no attempt after one that
\* succeeded and returns that attempt's result, sleeps base_sleep * 2^attempt
\* after each failed attempt, re-raises the exception of the last attempt when
\* all failed, and with retries >= 1 ends with a page or with an exception.
C24_BoundedRetry ==
    /\ Len(tries) <= args.retries
    /\ \A j \in 1..Len(tries) : tries[j].start = args.start /\ tries[j].limit = args.limit
    /\ \A j \in 1..(Len(tries) - 1) : ~tries[j].ok
    /\ fpc \in {"try", "ret"} =>
          slept = [j \in 1..Cardinality(Failed(tries)) |-> BaseSleep * Pow2(j - 1)]
    /\ fpc = "ret" =>
          /\ (tries # <<>> /\ tries[Len(tries)].ok) =>
                /\ page.kind = "page"
                /\ page.page = Serve(remote, args.start, args.limit)
          /\ (tries # <<>> /\ ~tries[Len(tries)].ok) =>
                /\ Len(tries) = args.retries
                /\ page.kind = "raised"
                /\ page.exc = tries[Len(tries)].exc
          /\ args.retries >= 1 => (tries # <<>> /\ page.kind \in {"page", "raised"})

C24_Witness ==
    /\ fpc = "ret"
    /\ args.retries = 3
    /\ Len(tries) = 3
    /\ page.kind = "raised"
    /\ page.exc = [from |-> "get_activities", n |-> 3]
    /\ slept = <<8, 16, 32>>


\* the pages of the log, joined in order
RECURSIVE Joined(_)
Joined(log) == IF log = <<>> THEN <<>> ELSE Head(log).page \o Joined(Tail(log))

AllButLast(log) == SubSeq(log, 1, Len(log) - 1)

\* get_all_activities has logged in and not ended
Paging == fpc \in {"while", "call", "try", "except", "ret"}

\* the fetch ended and no retry loop, of the login or of a page, was used up
EveryFetchSucceeded ==
    /\ fpc = "done"
    /\ logins = 1
    /\ \A j \in 1..Len(pages) : pages[j].kind # "raised"

C25_Pages ==
    /\ logins <= 1
    /\ (Paging \/ pages # <<>> \/ tries # <<>>) => logins = 1
    /\ \A j \in 1..Len(pages) : pages[j].start = (j - 1) * page_size /\ pages[j].limit = page_size
    /\ fpc \in {"call", "try", "except", "ret"} =>
          args.start = Len(pages) * page_size /\ args.limit = page_size
    /\ fpc \in {"try", "except", "ret"} =>
          \A j \in 1..Len(tries) : tries[j].start = args.start /\ tries[j].limit = args.limit
    /\ \A j \in 1..(Len(pages) - 1) : pages[j].kind = "page" /\ pages[j].page # <<>>
    /\ Paging => all_items = Joined(pages)
    /\ (fpc = "done" /\ pages # <<>>) =>
          LET last == pages[Len(pages)] IN
          /\ last.kind = "raised" \/ (last.kind = "page" /\ last.page = <<>>)
          /\ last.kind = "page" =>
                fout = [kind |-> "returned", page |-> Joined(AllButLast(pages)), exc |-> NoExc]
          /\ last.kind = "raised" =>
                fout = [kind |-> "raised", page |-> <<>>, exc |-> tries[Len(tries)].exc]
    /\ EveryFetchSucceeded => fout.kind = "returned"

\* C25: get_all_activities logs in once, requests pages at the offsets 0,
\* page_size, 2*page_size, ... in order, stops at the first empty page and
\* returns the earlier pages joined in request order; a page fetch that uses
\* up its retries ends the whole fetch with that exception and no list; and
\* the fetch ends, with the list when every fetch succeeded within its retries.
C25_Pagination == []C25_Pages /\ <>(fpc = "done")

C25_Witness ==
    /\ fpc = "done"
    /\ remote = 3
    /\ page_size = 2
    /\ nerr = 2
    /\ Len(pages) = 3
    /\ pages[2].start = 2
    /\ pages[3].page = <<>>
    /\ fout = [kind |-> "returned", page |-> <<1, 2, 3>>, exc |-> NoExc]

====
